---- MODULE Spec2Model ----
(***************************************************************************)
(* Model of tools/utils/ats_xdmf.py: the XDMF/HDF5 visualization reader of *)
(* Amanzi/ATS.  Four groups of operations are modelled, each with its own  *)
(* specification over the shared variables:                                *)
(*   SpecOrdering  structuredOrdering(coordinates, order)                  *)
(*   SpecReorder   reorder(data, map)                                      *)
(*   SpecXyz       xyz(directory, filename, key)                           *)
(*   Spec          the VisFile session (open, filters, mesh, field reads)  *)
(* Array indices are 0-based as in the source; TLA+ sequences are 1-based, *)
(* so position i of an array is element i + 1 of the sequence.             *)
(***************************************************************************)
EXTENDS Integers, Sequences, FiniteSets, TLC

VARIABLES
  phase,         \* which operation group has acted: "input" or "done"
  coordinates,   \* structuredOrdering: [dim, pts] the N x dim coordinate array
  axisList,      \* structuredOrdering: the caller's list object `order`
  ordering,      \* structuredOrdering: what the call returned or raised
  data,          \* reorder: [shape, a] the 1D or 2D data array
  map,           \* reorder: [kind, idx] the index map as the caller gave it
  reordered,     \* reorder: what the call returned or raised
  elem_conn,     \* xyz: the flat MixedElements buffer of the mesh file
  meshRead,      \* xyz: what the call returned or raised
  pc,            \* session: "new", "active" (inside the with-block), "closed", "failed"
  store,         \* session: the data file VisFile is pointed at
  time_unit,     \* session: the time_unit argument of VisFile(...)
  d,             \* session: the h5py file handle self.d: "none", "open", "closed"
  cycles,        \* session: self.cycles
  times,         \* session: self.times
  self_map,      \* session: the attribute self.map, [set, map]
  meshCall,      \* session: the most recent loadMesh call, [called, has_order, order]
  lastCall       \* session: the most recent call and how it ended

ordVars == <<coordinates, axisList, ordering>>

reoVars == <<data, map, reordered>>

xyzVars == <<elem_conn, meshRead>>

sesVars == <<pc, store, time_unit, d, cycles, times, self_map, meshCall, lastCall>>

vars == <<phase, ordVars, reoVars, xyzVars, sesVars>>

(***************************************************************************)
(* Bounds of the model.                                                    *)
(***************************************************************************)
MaxPts == 3

MaxElems == 3

MaxCycles == 2

MaxMapLen == 3

MaxBuf == 10

MaxSel == 2

MaxDim == 1

CoordVals == 0..1

Range(s) == {s[i] : i \in DOMAIN s}

SeqsUpTo(S, n) == UNION {[1..k -> S] : k \in 0..n}

NoDup(s) == \A i, j \in DOMAIN s : i # j => s[i] # s[j]

Abs(a) == IF a < 0 THEN -a ELSE a

(***************************************************************************)
(* structuredOrdering                                                      *)
(***************************************************************************)
AxisNames == {"x", "y", "z"}

\* The axis lists a caller passes: ordered subsets of {x, y, z}.
AxisLists == {s \in SeqsUpTo(AxisNames, 3) : NoDup(s)}

Points(dim) == [1..dim -> CoordVals]

CoordinateArrays ==
  {[dim |-> dim, pts |-> p] : dim \in {2}, p \in SeqsUpTo(Points(2), MaxPts)}
  \cup {[dim |-> dim, pts |-> p] : dim \in {3}, p \in SeqsUpTo(Points(3), MaxPts)}

\* list.insert(0, name)
Insert0(order, name) == <<name>> \o order

\* Faulty variant: y is inserted before x is, so x ends up in front of y.
EffectiveOrder_YThenX(order, dim) ==
  LET o1 == IF "y" \notin Range(order) THEN Insert0(order, "y") ELSE order
      o2 == IF "x" \notin Range(o1) THEN Insert0(o1, "x") ELSE o1
      o3 == IF dim > 2 /\ "z" \notin Range(o2) THEN Insert0(o2, "z") ELSE o2
  IN  o3

\* Faulty variant: the omitted headings are appended, so the caller's headings lead.
EffectiveOrder_Appended(order, dim) ==
  LET o1 == IF dim > 2 /\ "z" \notin Range(order) THEN Append(order, "z") ELSE order
      o2 == IF "y" \notin Range(o1) THEN Append(o1, "y") ELSE o1
      o3 == IF "x" \notin Range(o2) THEN Append(o2, "x") ELSE o2
  IN  o3

\* lines 372-377: the headings the caller omitted go first, x then y then z
\* each inserted at the front.
EffectiveOrder(order, dim) ==
  LET o1 == IF "x" \notin Range(order) THEN Insert0(order, "x") ELSE order
      o2 == IF "y" \notin Range(o1) THEN Insert0(o1, "y") ELSE o1
      o3 == IF dim > 2 /\ "z" \notin Range(o2) THEN Insert0(o2, "z") ELSE o2
  IN  o3

\* line 371: order = order[:] rebinds the local name to a copy, so the
\* caller's list object is what it was.
CallerListAfter(order, dim) == order

\* The field names of the structured dtype, in dtype order.
DtypeNames(dim) ==
  IF dim = 3 THEN <<"id", "x", "y", "z">> ELSE <<"id", "x", "y">>

\* Faulty variant: the id column counts rows from 1.
CoordsA_OneBased(c) ==
  [i \in 1..Len(c.pts) |->
     IF c.dim = 3
       THEN [id |-> i, x |-> c.pts[i][1], y |-> c.pts[i][2], z |-> c.pts[i][3]]
       ELSE [id |-> i, x |-> c.pts[i][1], y |-> c.pts[i][2]]]

\* lines 381-387: one record (i, x, y[, z]) per row of coordinates.
CoordsA(c) ==
  [i \in 1..Len(c.pts) |->
     IF c.dim = 3
       THEN [id |-> i - 1, x |-> c.pts[i][1], y |-> c.pts[i][2], z |-> c.pts[i][3]]
       ELSE [id |-> i - 1, x |-> c.pts[i][1], y |-> c.pts[i][2]]]

Field(rec, name) ==
  CASE name = "id" -> rec.id
    [] name = "x" -> rec.x
    [] name = "y" -> rec.y
    [] name = "z" -> rec.z

\* ndarray.sort(order=...): the fields named in order are compared first,
\* the fields left out follow in dtype order to break ties.
SortKeys(order, dim) ==
  order \o SelectSeq(DtypeNames(dim), LAMBDA n : n \notin Range(order))

RECURSIVE RecLess(_, _, _)
RecLess(a, b, keys) ==
  IF keys = <<>> THEN FALSE
  ELSE LET k == Head(keys)
       IN  IF Field(a, k) < Field(b, k) THEN TRUE
           ELSE IF Field(a, k) > Field(b, k) THEN FALSE
           ELSE RecLess(a, b, Tail(keys))

RECURSIVE InsertSorted(_, _, _)
InsertSorted(r, s, keys) ==
  IF s = <<>> THEN <<r>>
  ELSE IF RecLess(r, Head(s), keys) THEN <<r>> \o s
  ELSE <<Head(s)>> \o InsertSorted(r, Tail(s), keys)

RECURSIVE SortRecs(_, _)
SortRecs(s, keys) ==
  IF s = <<>> THEN <<>>
  ELSE InsertSorted(Head(s), SortRecs(Tail(s), keys), keys)

\* line 388: coords_a.sort(order=order); a name that is no field of the dtype
\* raises ValueError.
SortRaises(order, dim) == \E n \in Range(order) : n \notin Range(DtypeNames(dim))

\* line 390: map = coords_a['id']
MapOf(sorted) == [i \in DOMAIN sorted |-> sorted[i].id]

\* Faulty variant: the x and y columns are stacked in the wrong order.
OrderedCoordinates_YX(sorted, dim) ==
  [i \in DOMAIN sorted |->
     IF dim = 3 THEN <<sorted[i].y, sorted[i].x, sorted[i].z>>
     ELSE <<sorted[i].y, sorted[i].x>>]

\* lines 391-394: the columns x, y[, z] of the sorted records, transposed.
OrderedCoordinates(sorted, dim) ==
  [i \in DOMAIN sorted |->
     IF dim = 3 THEN <<sorted[i].x, sorted[i].y, sorted[i].z>>
     ELSE <<sorted[i].x, sorted[i].y>>]

structuredOrdering(c, order0) ==
  LET order == EffectiveOrder(order0, c.dim)
  IN  IF SortRaises(order, c.dim)
        THEN [ok |-> FALSE, err |-> "ValueError"]
        ELSE LET sorted == SortRecs(CoordsA(c), SortKeys(order, c.dim))
             IN  [ok |-> TRUE,
                  ordered_coordinates |-> OrderedCoordinates(sorted, c.dim),
                  map |-> MapOf(sorted)]

NotCalled == [ok |-> FALSE, err |-> "not called"]

OrderingIdle ==
  /\ coordinates = [dim |-> 2, pts |-> <<>>]
  /\ axisList = <<>>
  /\ ordering = NotCalled

ReorderIdle ==
  /\ data = [shape |-> <<0>>, a |-> <<>>]
  /\ map = [kind |-> "list", idx |-> <<>>]
  /\ reordered = NotCalled

XyzIdle ==
  /\ elem_conn = <<>>
  /\ meshRead = NotCalled

NoArray == [kind |-> "none", shape |-> <<>>, flat |-> <<>>]

NoCall == [op |-> "none", ok |-> TRUE, err |-> "", req |-> <<>>, eps |-> 0,
           before |-> NoArray, val |-> <<>>]

NoMeshCall == [called |-> FALSE, has_order |-> FALSE, order |-> <<>>]

SessionIdle ==
  /\ pc = "idle"
  /\ store = [exists |-> FALSE, keys |-> <<>>, time |-> <<>>]
  /\ time_unit = "yr"
  /\ d = "none"
  /\ cycles = NoArray
  /\ times = NoArray
  /\ self_map = [set |-> FALSE, map |-> <<>>]
  /\ meshCall = NoMeshCall
  /\ lastCall = NoCall

InitOrdering ==
  /\ phase = "input"
  /\ coordinates \in CoordinateArrays
  /\ axisList \in AxisLists
  /\ ordering = NotCalled
  /\ ReorderIdle
  /\ XyzIdle
  /\ SessionIdle

CallStructuredOrdering ==
  /\ phase = "input"
  /\ phase' = "done"
  /\ ordering' = structuredOrdering(coordinates, axisList)
  /\ axisList' = CallerListAfter(axisList, coordinates.dim)
  /\ UNCHANGED <<coordinates, reoVars, xyzVars, sesVars>>

NextOrdering == CallStructuredOrdering

SpecOrdering == InitOrdering /\ [][NextOrdering]_vars

(***************************************************************************)
(* reorder                                                                 *)
(***************************************************************************)
\* The value stored for element i of cycle row c: every entry of an array is
\* distinct, so a misplaced entry shows.
Entry(c, i) == 10 * c + i

Data1D(n) == [shape |-> <<n>>, a |-> [i \in 1..n |-> Entry(0, i - 1)]]

Data2D(nc, n) ==
  [shape |-> <<nc, n>>,
   a |-> [c \in 1..nc |-> [i \in 1..n |-> Entry(c - 1, i - 1)]]]

\* Single-cycle vectors, as VisFile.get() reads them.
DataVectors == {Data1D(n) : n \in 0..MaxElems}

\* Stacked cycles x elements matrices, as VisFile.getArray() builds them.
DataMatrices == {Data2D(nc, n) : nc \in 1..MaxCycles, n \in 0..MaxElems}

MapKinds == {"array", "list", "tuple"}

\* Index maps: integers around the valid range -N..N-1 of the longest array.
IndexMaps ==
  {[kind |-> k, idx |-> s] :
     k \in MapKinds, s \in SeqsUpTo((-MaxElems)..MaxElems, MaxMapLen)}

\* line 416: np.expand_dims(data, 0)
ExpandDims0(arr) == [shape |-> <<1>> \o arr.shape, a |-> <<arr.a>>]

\* lines 418-419: a tuple or list becomes np.array(map); np.array of an empty
\* sequence has dtype float64, of a sequence of ints dtype int64.  An ndarray
\* (as structuredOrdering returns) is passed through with its integer dtype.
AsIndexArray(m) ==
  IF m.kind \in {"tuple", "list"}
    THEN [dtype |-> IF m.idx = <<>> THEN "float64" ELSE "int64", idx |-> m.idx]
    ELSE [dtype |-> "int64", idx |-> m.idx]

\* An index k into an axis of length n: negative indices count from the end.
Wrap(k, n) == IF k < 0 THEN k + n ELSE k

InBounds(k, n) == -n <= k /\ k < n

\* line 421: data[:, map] on a 2D array: an index array that is not of
\* integer type, or an index outside -N..N-1, raises IndexError.
TakeColumns(d2, m) ==
  IF m.dtype # "int64" \/ \E i \in DOMAIN m.idx : ~InBounds(m.idx[i], d2.shape[2])
    THEN [ok |-> FALSE, err |-> "IndexError"]
    ELSE [ok |-> TRUE,
          shape |-> <<d2.shape[1], Len(m.idx)>>,
          a |-> [c \in 1..d2.shape[1] |->
                   [i \in DOMAIN m.idx |->
                      d2.a[c][Wrap(m.idx[i], d2.shape[2]) + 1]]]]

\* line 424: data[0, :]
Row0(d2) == [ok |-> TRUE, shape |-> Tail(d2.shape), a |-> d2.a[1]]

reorder(arr, m) ==
  LET flatten == Len(arr.shape) = 1
      d2 == IF flatten THEN ExpandDims0(arr) ELSE arr
      taken == TakeColumns(d2, AsIndexArray(m))
  IN  IF ~taken.ok THEN taken
      ELSE IF flatten THEN Row0(taken)
      ELSE taken

InitReorder ==
  /\ phase = "input"
  /\ \/ data \in DataVectors
     \/ data \in DataMatrices
  /\ map \in IndexMaps
  /\ reordered = NotCalled
  /\ OrderingIdle
  /\ XyzIdle
  /\ SessionIdle

CallReorder ==
  /\ phase = "input"
  /\ phase' = "done"
  /\ reordered' = reorder(data, map)
  /\ UNCHANGED <<data, map, ordVars, xyzVars, sesVars>>

NextReorder == CallReorder

SpecReorder == InitReorder /\ [][NextReorder]_vars

(***************************************************************************)
(* xyz                                                                     *)
(***************************************************************************)
\* lines 236-240: the element-type enum.
elem_type(tag) ==
  CASE tag = 5 -> "QUAD"
    [] tag = 8 -> "PRISM"
    [] tag = 9 -> "HEX"
    [] tag = 4 -> "TRIANGLE"

ElemTags == {5, 8, 9, 4}

\* lines 279-286
nnodes_per_elem(etype) ==
  CASE etype = "PRISM" -> 6
    [] etype = "HEX" -> 8
    [] etype = "QUAD" -> 4
    [] etype = "TRIANGLE" -> 3

\* The node table of the mesh file: NodeMap[:,0] and Nodes[:].
NodeMap == <<0, 1, 2, 3, 4, 5>>

Nodes == <<<<0, 0, 0>>, <<2, 0, 0>>, <<2, 2, 0>>, <<0, 2, 0>>, <<4, 0, 0>>, <<4, 2, 1>>>>

\* line 291: dict(zip(NodeMap, Nodes))
Coords == [gid \in Range(NodeMap) |->
             Nodes[CHOOSE i \in DOMAIN NodeMap :
                     /\ NodeMap[i] = gid
                     /\ \A j \in DOMAIN NodeMap : NodeMap[j] = gid => j <= i]]

\* line 293: elem_conn.reshape((n_elems, nnodes_per_elem + 1))
Reshape(buf, rows, cols) ==
  [r \in 1..rows |-> [c \in 1..cols |-> buf[(r - 1) * cols + c]]]

\* Faulty variant: only the first row's tag is compared with the first entry.
TagsDiffer_FirstRow(conn, tag) == conn # <<>> /\ conn[1][1] # tag

\* line 294: np.any(conn[:,0] != elem_conn[0])
TagsDiffer(conn, tag) == \E r \in DOMAIN conn : conn[r][1] # tag

xyz(buf) ==
  IF buf = <<>> THEN [ok |-> FALSE, err |-> "IndexError"]
  ELSE IF buf[1] \notin ElemTags THEN [ok |-> FALSE, err |-> "KeyError"]
  ELSE
    LET etype == elem_type(buf[1])
        cols == nnodes_per_elem(etype) + 1
    IN  IF Len(buf) % cols # 0 THEN [ok |-> FALSE, err |-> "ValueError"]
        ELSE LET n_elems == Len(buf) \div cols
                 conn == Reshape(buf, n_elems, cols)
             IN  IF TagsDiffer(conn, buf[1])
                   THEN [ok |-> FALSE, err |-> "ValueError"]
                   ELSE [ok |-> TRUE, etype |-> etype, coords |-> Coords,
                         conn |-> conn]

RECURSIVE Pow10(_)
Pow10(k) == IF k = 0 THEN 1 ELSE 10 * Pow10(k - 1)

RECURSIVE Sum(_)
Sum(seq) == IF seq = <<>> THEN 0 ELSE Head(seq) + Sum(Tail(seq))

\* np.round(num / den, round) for num >= 0, in units of 10^-round: halves
\* go to the even neighbour.
RoundTo(num, den, round) ==
  LET scaled == num * Pow10(round)
      q == scaled \div den
      r == scaled % den
  IN  IF 2 * r < den THEN q
      ELSE IF 2 * r > den THEN q + 1
      ELSE IF q % 2 = 0 THEN q ELSE q + 1

\* lines 324-331: the mean of the node coordinates of each element, rounded;
\* components in units of 10^-round.
elemCentroids(buf, round) ==
  LET mesh == xyz(buf)
  IN  IF ~mesh.ok THEN mesh
      ELSE IF \E r \in DOMAIN mesh.conn :
                \E c \in 2..Len(mesh.conn[r]) : mesh.conn[r][c] \notin DOMAIN mesh.coords
        THEN [ok |-> FALSE, err |-> "KeyError"]
      ELSE [ok |-> TRUE,
            centroids |->
              [r \in DOMAIN mesh.conn |->
                 LET elem == Tail(mesh.conn[r])
                 IN  [ax \in 1..3 |->
                        RoundTo(Sum([g \in DOMAIN elem |-> mesh.coords[elem[g]][ax]]),
                                Len(elem), round)]]]

\* Buffer entries: type tags and node ids (node ids 4 and 5 read like tags).
EntryVals == {0, 4, 5}

Zeros(n) == [i \in 1..n |-> 0]

\* Prism and hexahedron buffers of one or two elements: well formed, with a
\* second element of another tag, and one entry too long.
LongBuffers ==
  UNION {{<<t>> \o Zeros(n),
          <<t>> \o Zeros(n) \o <<0>>,
          <<t>> \o Zeros(n) \o <<t>> \o Zeros(n),
          <<t>> \o Zeros(n) \o <<5>> \o Zeros(n),
          <<t>> \o Zeros(n) \o <<17 - t>> \o Zeros(n)} :
            <<t, n>> \in {<<8, 6>>, <<9, 8>>}}

InitXyz ==
  /\ phase = "input"
  /\ elem_conn \in SeqsUpTo(EntryVals, MaxBuf) \cup LongBuffers
  /\ meshRead = NotCalled
  /\ OrderingIdle
  /\ ReorderIdle
  /\ SessionIdle

CallXyz ==
  /\ phase = "input"
  /\ phase' = "done"
  /\ meshRead' = xyz(elem_conn)
  /\ UNCHANGED <<elem_conn, ordVars, reoVars, sesVars>>

NextXyz == CallXyz

SpecXyz == InitXyz /\ [][NextXyz]_vars

(***************************************************************************)
(* numpy arrays of the session: [kind, shape, flat], flat in row-major     *)
(* order.  kind "ndarray" has one axis or more; kind "scalar" is what      *)
(* indexing a 1D array with an int gives (np.str_ or str for cycles,       *)
(* np.float64 for times), its one value in flat.                           *)
(***************************************************************************)
RECURSIVE Prod(_)
Prod(sh) == IF sh = <<>> THEN 1 ELSE Head(sh) * Prod(Tail(sh))

RECURSIVE Concat(_)
Concat(ss) == IF ss = <<>> THEN <<>> ELSE Head(ss) \o Concat(Tail(ss))

Array1D(flat) == [kind |-> "ndarray", shape |-> <<Len(flat)>>, flat |-> flat]

Scalar(v) == [kind |-> "scalar", shape |-> <<>>, flat |-> <<v>>]

\* arr[i] along the first axis, i in bounds.
RowOf(arr, i) ==
  LET rs == Prod(Tail(arr.shape))
      k == Wrap(i, arr.shape[1])
  IN  SubSeq(arr.flat, k * rs + 1, (k + 1) * rs)

\* arr[idx] for an integer index array idx of shape idxShape.
Take(arr, idx, idxShape) ==
  [kind |-> "ndarray",
   shape |-> idxShape \o Tail(arr.shape),
   flat |-> Concat([j \in DOMAIN idx |-> RowOf(arr, idx[j])])]

\* Python's slice(a, b) on a sequence of length n: the indices it selects.
Clamp(k, n) ==
  IF k < 0 THEN (IF k + n < 0 THEN 0 ELSE k + n)
  ELSE IF k > n THEN n ELSE k

SliceRange(n, a, b) ==
  LET lo == Clamp(a, n)
      hi == Clamp(b, n)
  IN  [j \in 1..(IF hi > lo THEN hi - lo ELSE 0) |-> lo + j - 1]

\* An index expression: t is "int", "list", "slice" (v = <<start, stop>>) or
\* "arrays" (v = a Python list of equally long integer arrays, which numpy
\* 1.23 and later reads as one index array of shape (len(v), width)).
Ix(t, v) == [t |-> t, v |-> v]

Raised(err) == [ok |-> FALSE, err |-> err, val |-> NoArray]

Value(val) == [ok |-> TRUE, err |-> "", val |-> val]

\* ndarray.__getitem__
IndexNd(arr, ix) ==
  LET n == arr.shape[1]
  IN  CASE ix.t = "int" ->
             IF ~InBounds(ix.v, n) THEN Raised("IndexError")
             ELSE IF Len(arr.shape) = 1 THEN Value(Scalar(RowOf(arr, ix.v)[1]))
             ELSE Value([kind |-> "ndarray", shape |-> Tail(arr.shape),
                         flat |-> RowOf(arr, ix.v)])
        [] ix.t = "list" ->
             IF \E j \in DOMAIN ix.v : ~InBounds(ix.v[j], n)
               THEN Raised("IndexError")
               ELSE Value(Take(arr, ix.v, <<Len(ix.v)>>))
        [] ix.t = "slice" ->
             LET idx == SliceRange(n, ix.v[1], ix.v[2])
             IN  Value(Take(arr, idx, <<Len(idx)>>))
        [] ix.t = "arrays" ->
             IF ix.v = <<>> THEN Value(Take(arr, <<>>, <<0>>))
             ELSE LET idx == Concat(ix.v)
                  IN  IF \E j \in DOMAIN idx : ~InBounds(idx[j], n)
                        THEN Raised("IndexError")
                        ELSE Value(Take(arr, idx, <<Len(ix.v), Len(ix.v[1])>>))

\* str.__getitem__ (np.str_ inherits it): an int gives a character, a slice
\* a substring, anything else TypeError.
IndexStr(arr, ix) ==
  LET str == arr.flat[1]
  IN  CASE ix.t = "int" ->
             IF InBounds(ix.v, Len(str))
               THEN Value(Scalar(<<str[Wrap(ix.v, Len(str)) + 1]>>))
               ELSE Raised("IndexError")
        [] ix.t = "slice" ->
             LET idx == SliceRange(Len(str), ix.v[1], ix.v[2])
             IN  Value(Scalar([j \in DOMAIN idx |-> str[idx[j] + 1]]))
        [] OTHER -> Raised("TypeError")

\* np.float64.__getitem__: invalid index to scalar variable.
IndexFloat(arr, ix) == Raised("IndexError")

\* line 87: self.cycles[indices]
CyclesIndex(arr, ix) ==
  IF arr.kind = "ndarray" THEN IndexNd(arr, ix) ELSE IndexStr(arr, ix)

\* line 88: self.times[indices]
TimesIndex(arr, ix) ==
  IF arr.kind = "ndarray" THEN IndexNd(arr, ix) ELSE IndexFloat(arr, ix)

\* lines 87-88: the two assignments in turn; the first that raises ends the
\* call with what was assigned before it.
filterIndices(cy, ti, ix) ==
  LET c == CyclesIndex(cy, ix)
      t == TimesIndex(ti, ix)
  IN  IF ~c.ok THEN [ok |-> FALSE, err |-> c.err, cycles |-> cy, times |-> ti]
      ELSE IF ~t.ok THEN [ok |-> FALSE, err |-> t.err, cycles |-> c.val, times |-> ti]
      ELSE [ok |-> TRUE, err |-> "", cycles |-> c.val, times |-> t.val]

RECURSIVE Unravel(_, _)
Unravel(k, sh) ==
  IF sh = <<>> THEN <<>>
  ELSE LET rs == Prod(Tail(sh))
       IN  <<k \div rs>> \o Unravel(k % rs, Tail(sh))

\* np.argwhere(mask)[0]: the index of the first True in row-major order, one
\* entry per axis (none for a scalar); IndexError where nothing is True.
ArgwhereFirst(shape, mask) ==
  IF \A q \in DOMAIN mask : ~mask[q] THEN [ok |-> FALSE, idx |-> <<>>]
  ELSE LET first == CHOOSE q \in DOMAIN mask :
                      mask[q] /\ \A r \in DOMAIN mask : mask[r] => q <= r
       IN  [ok |-> TRUE, idx |-> Unravel(first - 1, shape)]

\* The list comprehension of lines 109 and 137 over the masks of the
\* requested values.
Inds(shape, masks) ==
  IF \E k \in DOMAIN masks : ~ArgwhereFirst(shape, masks[k]).ok
    THEN [ok |-> FALSE, rows |-> <<>>]
    ELSE [ok |-> TRUE,
          rows |-> [k \in DOMAIN masks |-> ArgwhereFirst(shape, masks[k]).idx]]

\* A requested cycle: an int as the docstring has it, or the store's string.
CycleInt(v) == [t |-> "int", v |-> v]

CycleStr(v) == [t |-> "str", v |-> v]

\* line 109: self.cycles == c, a string compared with an int is False.
CyclesEqual(cy, c) ==
  [q \in DOMAIN cy.flat |-> c.t = "str" /\ cy.flat[q] = c.v]

\* lines 104-110
filterCycles(cy, ti, req) ==
  LET inds == Inds(cy.shape, [k \in DOMAIN req |-> CyclesEqual(cy, req[k])])
  IN  IF ~inds.ok THEN [ok |-> FALSE, err |-> "IndexError", cycles |-> cy, times |-> ti]
      ELSE filterIndices(cy, ti, Ix("arrays", inds.rows))

\* line 137: np.isclose(self.times, t, eps) binds eps to the third
\* parameter, rtol: |a - b| <= atol + rtol * |b| with atol = 1e-8.  Times are
\* integer numerators over the denominator of the session's unit (at most
\* 14600) and eps is a whole number, so the default atol changes no
\* comparison; float rounding is not modelled.
IsClose(a, b, rtol) == Abs(a - b) <= rtol * Abs(b)

TimesClose(ti, t, eps) ==
  [q \in DOMAIN ti.flat |-> IsClose(ti.flat[q], t, eps)]

\* lines 132-138
filterTimes(cy, ti, req, eps) ==
  LET inds == Inds(ti.shape, [k \in DOMAIN req |-> TimesClose(ti, req[k], eps)])
  IN  IF ~inds.ok THEN [ok |-> FALSE, err |-> "IndexError", cycles |-> cy, times |-> ti]
      ELSE filterIndices(cy, ti, Ix("arrays", inds.rows))

(***************************************************************************)
(* The VisFile session                                                     *)
(***************************************************************************)
TimeUnits == {"yr", "noleap", "d", "hr", "s"}

\* lines 44-55: the factor of a unit as a fraction num/den of the stored time
\* in tenths of a year: 1, 365.25/365, 365.25, 365.25*24, 365.25*24*3600,
\* each divided by ten and reduced.
time_factor(unit) ==
  CASE unit = "yr" -> [num |-> 1, den |-> 10]
    [] unit = "noleap" -> [num |-> 1461, den |-> 14600]
    [] unit = "d" -> [num |-> 1461, den |-> 40]
    [] unit = "hr" -> [num |-> 4383, den |-> 5]
    [] unit = "s" -> [num |-> 3155760, den |-> 1]

\* int(key) of a cycle key, a string of decimal digits.
RECURSIVE DigitsToInt(_)
DigitsToInt(str) ==
  IF str = <<>> THEN 0
  ELSE 10 * DigitsToInt(SubSeq(str, 1, Len(str) - 1)) + str[Len(str)]

\* k comes before every key of the sorted tail whose int value is not
\* smaller: k preceded them in the input, and sorted() is stable.
RECURSIVE InsertByInt(_, _)
InsertByInt(k, sorted) ==
  IF sorted = <<>> THEN <<k>>
  ELSE IF DigitsToInt(k) <= DigitsToInt(Head(sorted)) THEN <<k>> \o sorted
  ELSE <<Head(sorted)>> \o InsertByInt(k, Tail(sorted))

\* sorted(keys, key=int): keys of equal int value keep their input order.
RECURSIVE SortedByInt(_)
SortedByInt(keys) ==
  IF keys = <<>> THEN <<>>
  ELSE InsertByInt(Head(keys), SortedByInt(Tail(keys)))

\* The data files: the cycle keys of the first field in the store's own
\* (alphabetical) order, and the Time attribute of each in tenths of a year.
Store3 ==
  [exists |-> TRUE, has_field |-> TRUE,
   keys |-> <<<<0>>, <<1, 0>>, <<4>>>>,
   time |-> (<<0>> :> 10) @@ (<<4>> :> 46) @@ (<<1, 0>> :> 90)]

Store2 ==
  [exists |-> TRUE, has_field |-> TRUE,
   keys |-> <<<<1, 2>>, <<5>>>>,
   time |-> (<<5>> :> 20) @@ (<<1, 2>> :> 20)]

StoreNoField ==
  [exists |-> TRUE, has_field |-> FALSE, keys |-> <<>>, time |-> <<>>]

StoreAbsent ==
  [exists |-> FALSE, has_field |-> FALSE, keys |-> <<>>, time |-> <<>>]

\* lines 70-72
loadTimes(st, unit) ==
  IF ~st.has_field
    THEN [ok |-> FALSE, err |-> "StopIteration", cycles |-> NoArray, times |-> NoArray]
    ELSE LET sorted == SortedByInt(st.keys)
         IN  [ok |-> TRUE, err |-> "",
              cycles |-> Array1D(sorted),
              times |-> Array1D([i \in DOMAIN sorted |->
                                   st.time[sorted[i]] * time_factor(unit).num])]

Call(op, ok, err) ==
  [op |-> op, ok |-> ok, err |-> err, req |-> <<>>, eps |-> 0, before |-> NoArray,
   val |-> <<>>]

\* The mesh file of the session: three quadrilaterals in a row, stored out
\* of order, and the values of a field per cycle in store order.
MeshBuffer == <<5, 1, 4, 5, 2, 5, 0, 1, 2, 3, 5, 1, 4, 5, 2>>

RawField(key) == [e \in 1..3 |-> Entry(DigitsToInt(key), e - 1)]

\* lines 207-232.  The method is declared without self, so the instance is
\* bound to cycle and round is the third and last parameter: a third
\* positional argument, or order= after a positional order, is a TypeError
\* at the call; otherwise cycle is not None and line 225 reads the name
\* self, which is not defined.  npos counts the caller's positional
\* arguments, kw_order tells whether order= is given by keyword.
loadMesh(npos, kw_order) ==
  IF npos + 1 > 3 \/ (kw_order /\ npos + 1 > 1) THEN "TypeError" ELSE "NameError"

\* lines 164-185.  The instance is bound to vname, so the call binds only
\* with exactly one positional argument, and then line 181 reads the name
\* self, which is not defined; with none (cycle missing) or with two or more
\* (too many) the call itself is a TypeError.
get(npos) == IF npos + 1 = 2 THEN "NameError" ELSE "TypeError"

\* lines 187-205, called as vis.getArray(vname): two positional arguments
\* for the one parameter vname.
getArray(npos) == IF npos + 1 > 1 THEN "TypeError" ELSE "NameError"

Init ==
  /\ phase = "session"
  /\ pc = "new"
  /\ store \in {Store3, Store2, StoreNoField, StoreAbsent}
  /\ time_unit \in TimeUnits \cup {"fortnight"}
  /\ d = "none"
  /\ cycles = NoArray
  /\ times = NoArray
  /\ self_map = [set |-> FALSE, map |-> <<>>]
  /\ meshCall = NoMeshCall
  /\ lastCall = NoCall
  /\ OrderingIdle
  /\ ReorderIdle
  /\ XyzIdle

others == <<phase, ordVars, reoVars, xyzVars>>

\* lines 44-60 with a bad unit: ValueError before any file access.
OpenBadUnit ==
  /\ pc = "new" /\ time_unit \notin TimeUnits
  /\ pc' = "failed"
  /\ lastCall' = Call("VisFile", FALSE, "ValueError")
  /\ UNCHANGED <<store, time_unit, d, cycles, times, self_map, meshCall, others>>

\* line 59 on a file that cannot be opened: h5py.File raises.
OpenNoFile ==
  /\ pc = "new" /\ time_unit \in TimeUnits /\ ~store.exists
  /\ pc' = "failed"
  /\ lastCall' = Call("VisFile", FALSE, "OSError")
  /\ UNCHANGED <<store, time_unit, d, cycles, times, self_map, meshCall, others>>

\* lines 59-60: the file is opened, then loadTimes raises inside __init__;
\* no object is returned, so no with-block is entered and __exit__ never runs.
OpenLoadTimesRaises ==
  /\ pc = "new" /\ time_unit \in TimeUnits /\ store.exists
  /\ ~loadTimes(store, time_unit).ok
  /\ d' = "open"
  /\ pc' = "failed"
  /\ lastCall' = Call("VisFile", FALSE, loadTimes(store, time_unit).err)
  /\ UNCHANGED <<store, time_unit, cycles, times, self_map, meshCall, others>>

\* lines 59-63: the constructor returns and the with-block is entered.
Open ==
  /\ pc = "new" /\ time_unit \in TimeUnits /\ store.exists
  /\ loadTimes(store, time_unit).ok
  /\ d' = "open"
  /\ cycles' = loadTimes(store, time_unit).cycles
  /\ times' = loadTimes(store, time_unit).times
  /\ pc' = "active"
  /\ lastCall' = Call("VisFile", TRUE, "")
  /\ UNCHANGED <<store, time_unit, self_map, meshCall, others>>

\* lines 65-66: the with-block is left, normally or by an exception.
Exit ==
  /\ pc = "active"
  /\ d' = "closed"
  /\ pc' = "closed"
  /\ UNCHANGED <<store, time_unit, cycles, times, self_map, meshCall, lastCall, others>>

LoadTimes ==
  /\ pc = "active"
  /\ cycles' = loadTimes(store, time_unit).cycles
  /\ times' = loadTimes(store, time_unit).times
  /\ lastCall' = Call("loadTimes", TRUE, "")
  /\ UNCHANGED <<pc, store, time_unit, d, self_map, meshCall, others>>

Filtered(op, res, req, eps) ==
  /\ cycles' = res.cycles
  /\ times' = res.times
  /\ lastCall' = [op |-> op, ok |-> res.ok, err |-> res.err, req |-> req,
                  eps |-> eps,
                  before |-> IF op = "filterTimes" THEN times ELSE NoArray,
                  val |-> <<>>]
  /\ UNCHANGED <<pc, store, time_unit, d, self_map, meshCall, others>>

\* The positions a caller asks for: around the range of the longest index.
Positions == (-1)..Len(Store3.keys)

FilterIndicesInt ==
  /\ pc = "active"
  /\ \E i \in Positions :
       Filtered("filterIndices", filterIndices(cycles, times, Ix("int", i)), <<i>>, 0)

FilterIndicesList ==
  /\ pc = "active"
  /\ \E l \in SeqsUpTo(Positions, MaxSel) :
       Filtered("filterIndices", filterIndices(cycles, times, Ix("list", l)), l, 0)

FilterIndicesSlice ==
  /\ pc = "active"
  /\ \E a, b \in Positions :
       Filtered("filterIndices",
                filterIndices(cycles, times, Ix("slice", <<a, b>>)), <<a, b>>, 0)

\* filterCycles is guarded on the number of axes: every call that succeeds
\* on an ndarray adds one.
FilterCyclesInt ==
  /\ pc = "active" /\ Len(cycles.shape) <= MaxDim
  /\ \E c \in {DigitsToInt(k) : k \in Range(store.keys)} \cup {-1} :
       Filtered("filterCycles",
                filterCycles(cycles, times, <<CycleInt(c)>>), <<c>>, 0)

FilterCyclesStr ==
  /\ pc = "active" /\ Len(cycles.shape) <= MaxDim
  /\ \E l \in SeqsUpTo(Range(store.keys) \cup {<<7>>}, MaxSel) :
       Filtered("filterCycles",
                filterCycles(cycles, times, [k \in DOMAIN l |-> CycleStr(l[k])]), l, 0)

\* loadMesh raises before line 227 or 230 assigns self.map.
LoadMesh ==
  /\ pc = "active"
  /\ \E npos \in 0..3, kw_order \in BOOLEAN, order \in {<<"x">>, <<"x", "z">>} :
       /\ meshCall' = [called |-> TRUE, has_order |-> kw_order \/ npos >= 2,
                       order |-> IF kw_order \/ npos >= 2 THEN order ELSE <<>>]
       /\ lastCall' = Call("loadMesh", FALSE, loadMesh(npos, kw_order))
  /\ UNCHANGED <<pc, store, time_unit, d, cycles, times, self_map, others>>

Get ==
  /\ pc = "active"
  /\ \E key \in Range(store.keys) :
       lastCall' = [Call("get", FALSE, get(2)) EXCEPT !.req = <<key>>]
  /\ UNCHANGED <<pc, store, time_unit, d, cycles, times, self_map, meshCall, others>>

GetArray ==
  /\ pc = "active"
  /\ lastCall' = Call("getArray", FALSE, getArray(1))
  /\ UNCHANGED <<pc, store, time_unit, d, cycles, times, self_map, meshCall, others>>

\* Requested times, in tenths of a year converted to the session's unit.
RequestTenths == {0, 10, 50, 90}

EpsVals == {0, 1}

FilterTimes ==
  /\ pc = "active" /\ Len(times.shape) <= MaxDim
  /\ \E l \in SeqsUpTo({r * time_factor(time_unit).num : r \in RequestTenths}, MaxSel),
        eps \in EpsVals :
       Filtered("filterTimes",
                filterTimes(cycles, times, l, eps), l, eps)

Next ==
  \/ OpenBadUnit
  \/ OpenNoFile
  \/ OpenLoadTimesRaises
  \/ Open
  \/ Exit
  \/ LoadTimes
  \/ FilterIndicesInt
  \/ FilterIndicesList
  \/ FilterIndicesSlice
  \/ FilterCyclesInt
  \/ FilterCyclesStr
  \/ FilterTimes
  \/ LoadMesh
  \/ Get
  \/ GetArray

Spec == Init /\ [][Next]_vars

(***************************************************************************)
(* Properties of structuredOrdering                                        *)
(***************************************************************************)
Returned == phase = "done" /\ ordering.ok

O == ordering.ordered_coordinates

M == ordering.map

NPts == Len(coordinates.pts)

\* Column of a point by axis name.
Axis(p, name) == CASE name = "x" -> p[1] [] name = "y" -> p[2] [] name = "z" -> p[3]

\* p is before q, or equal to it, lexicographically on the axes in keys.
RECURSIVE LexLeq(_, _, _)
LexLeq(p, q, keys) ==
  IF keys = <<>> THEN TRUE
  ELSE \/ Axis(p, Head(keys)) < Axis(q, Head(keys))
       \/ /\ Axis(p, Head(keys)) = Axis(q, Head(keys))
          /\ LexLeq(p, q, Tail(keys))

EqualOn(p, q, keys) == \A k \in Range(keys) : Axis(p, k) = Axis(q, k)

ZOnly3D == coordinates.dim = 3 /\ axisList = <<"z">>

\* C1 as stated: for 3D input and order ['z'] the ordered coordinates are
\* non-decreasing in z, ties in z broken by y and then by x.
C1_NonDecreasingInZ ==
  (Returned /\ ZOnly3D) =>
    \A i \in 1..(Len(O) - 1) : LexLeq(O[i], O[i + 1], <<"z", "y", "x">>)

\* C1 amended: for 3D input and order ['z'] the ordered coordinates are
\* non-decreasing in y, ties in y broken by x and then by z; z is
\* non-decreasing among the points that share y and x.
C1_NonDecreasingInYXZ ==
  (Returned /\ ZOnly3D) =>
    /\ \A i \in 1..(Len(O) - 1) : LexLeq(O[i], O[i + 1], <<"y", "x", "z">>)
    /\ \A i, j \in 1..Len(O) :
         (i < j /\ EqualOn(O[i], O[j], <<"y", "x">>)) => O[i][3] <= O[j][3]

\* A column of two cells sorted upward in z, next to a point of another y
\* whose z is lower than the column's top.
C1_Witness ==
  /\ Returned /\ ZOnly3D /\ Len(O) = 3
  /\ EqualOn(O[1], O[2], <<"y", "x">>) /\ O[1][3] < O[2][3]
  /\ O[2][2] < O[3][2] /\ O[3][3] < O[2][3]
  /\ M # <<0, 1, 2>>

\* C4: for every N x 2 or N x 3 array and every axis list of its axes the
\* call returns, and whenever it returns (O, M), O has one row per input row
\* and O[i] == C[M[i]] for every i.
C4_Reconstruction ==
  /\ (phase = "done" /\ ("z" \in Range(axisList) => coordinates.dim = 3))
       => ordering.ok
  /\ Returned =>
    /\ Len(O) = NPts
    /\ Len(M) = NPts
    /\ \A i \in 1..NPts :
         M[i] + 1 \in 1..NPts /\ O[i] = coordinates.pts[M[i] + 1]

\* Three distinct points that the call moved.
C4_Witness ==
  /\ Returned /\ NPts = 3
  /\ M = <<2, 0, 1>>
  /\ O[1] # O[2] /\ O[2] # O[3]
  /\ O # coordinates.pts

\* C5: the returned map is a permutation of 0..N-1, duplicates in the input
\* included.
C5_Permutation ==
  Returned =>
    /\ Len(M) = NPts
    /\ Range(M) = 0..(NPts - 1)
    /\ NoDup(M)

\* Three points, two of them the same coordinate, reordered.
C5_Witness ==
  /\ Returned /\ NPts = 3
  /\ coordinates.pts[1] = coordinates.pts[3]
  /\ coordinates.pts[1] # coordinates.pts[2]
  /\ M = <<1, 0, 2>>

\* The key sequence the claim describes: z (3D input only), y, x where the
\* caller left them out, then the caller's headings in the caller's order.
ClaimedKeys(A, dim) ==
  SelectSeq(<<"z", "y", "x">>,
            LAMBDA n : n \notin Range(A) /\ (n = "z" => dim = 3)) \o A

\* C6: a call that returns has ordered the points lexicographically on the
\* claimed key sequence, points equal on every key by original index, and
\* has left the caller's axis list as it was.
C6_FixedTotalOrder ==
  [][(phase = "input" /\ phase' = "done" /\ ordering'.ok) =>
       /\ axisList' = axisList
       /\ LET keys == ClaimedKeys(axisList, coordinates.dim)
              Op == ordering'.ordered_coordinates
              Mp == ordering'.map
          IN  \A i, j \in 1..Len(Op) :
                i < j =>
                  /\ LexLeq(Op[i], Op[j], keys)
                  /\ EqualOn(Op[i], Op[j], keys) => Mp[i] < Mp[j]]_vars

\* Order ['x'] on 3D input: keys z, y, x; two equal points kept in index
\* order behind a point of lower z that came last in the input.
C6_Witness ==
  /\ Returned /\ coordinates.dim = 3 /\ axisList = <<"x">> /\ NPts = 3
  /\ coordinates.pts[1] = coordinates.pts[2]
  /\ coordinates.pts[3][3] < coordinates.pts[1][3]
  /\ coordinates.pts[3][1] > coordinates.pts[1][1]
  /\ M = <<2, 0, 1>>

(***************************************************************************)
(* Properties of reorder                                                   *)
(***************************************************************************)
NElems == data.shape[Len(data.shape)]

\* Every entry of the map indexes the element axis (numpy's -N..N-1).
ValidMap == \A i \in DOMAIN map.idx : InBounds(map.idx[i], NElems)

\* data[..., k] for a numpy index k, row by row.
ElementOf(row, k) == row[Wrap(k, NElems) + 1]

ReorderedRight ==
  /\ reordered.ok
  /\ Len(reordered.shape) = Len(data.shape)
  /\ reordered.shape[Len(reordered.shape)] = Len(map.idx)
  /\ IF Len(data.shape) = 1
       THEN /\ Len(reordered.a) = Len(map.idx)
            /\ \A i \in DOMAIN map.idx :
                 reordered.a[i] = ElementOf(data.a, map.idx[i])
       ELSE /\ reordered.shape[1] = data.shape[1]
            /\ Len(reordered.a) = Len(data.a)
            /\ \A c \in DOMAIN data.a :
                 /\ Len(reordered.a[c]) = Len(map.idx)
                 /\ \A i \in DOMAIN map.idx :
                      reordered.a[c][i] = ElementOf(data.a[c], map.idx[i])

\* C10 as stated: for every 1D or 2D data array and every index map of the
\* element axis, given as array, list or tuple, reorder returns an array of
\* the same number of dimensions with result[..., i] == data[..., map[i]],
\* each cycle row in its place.
C10_ReorderAlongElementAxis ==
  (phase = "done" /\ ValidMap) => ReorderedRight

\* The part of C10 the code keeps: the same, for every map that is not an
\* empty list or tuple.
C10_ReorderNonEmptyOrArray ==
  (phase = "done" /\ ValidMap /\ (map.kind = "array" \/ map.idx # <<>>)) =>
    ReorderedRight

(***************************************************************************)
(* Properties of xyz                                                       *)
(***************************************************************************)
\* The stride the claim names for a first-entry tag: nodes per element + 1.
ClaimedStride(tag) ==
  CASE tag = 4 -> 3 + 1 [] tag = 5 -> 4 + 1 [] tag = 8 -> 6 + 1 [] tag = 9 -> 8 + 1

\* The leading tags of the elements of a buffer cut at the claimed stride.
LeadingTags(buf) ==
  {buf[k] : k \in {j \in DOMAIN buf : (j - 1) % ClaimedStride(buf[1]) = 0}}

Malformed(buf) ==
  \/ Len(buf) % ClaimedStride(buf[1]) # 0
  \/ LeadingTags(buf) # {buf[1]}

\* C9: a buffer whose length is no multiple of the stride, or with an
\* element whose leading tag differs from the first, makes xyz fail and
\* return nothing; a connectivity table that is returned carries one tag.
C9_SingleElementTypeOnly ==
  phase = "done" =>
    /\ (elem_conn # <<>> /\ elem_conn[1] \in {4, 5, 8, 9} /\ Malformed(elem_conn))
         => (~meshRead.ok /\ DOMAIN meshRead = {"ok", "err"})
    /\ meshRead.ok =>
         /\ Len(meshRead.conn) * ClaimedStride(elem_conn[1]) = Len(elem_conn)
         /\ \A r, q \in DOMAIN meshRead.conn :
              meshRead.conn[r][1] = meshRead.conn[q][1]

\* Two aligned elements, a quadrilateral then a row tagged as a triangle.
C9_Witness ==
  /\ phase = "done" /\ ~meshRead.ok /\ meshRead.err = "ValueError"
  /\ Len(elem_conn) = 10 /\ elem_conn[1] = 5 /\ elem_conn[6] = 4

(***************************************************************************)
(* Properties of the session                                               *)
(***************************************************************************)
Den == time_factor(time_unit).den

Num == time_factor(time_unit).num

\* C2 as stated: a filterTimes(times, eps) that succeeds on the loaded index
\* leaves, for each requested time t in order, one position whose time is
\* within eps of t in absolute value; on times [1.0, 4.6, 9.0] the call
\* filterTimes([5.0], eps=1.0) selects index 1, the cycle '4'.
C2_WithinAbsoluteEps ==
  (pc = "active" /\ lastCall.op = "filterTimes" /\ lastCall.ok
     /\ Len(lastCall.before.shape) = 1) =>
    /\ Len(times.flat) = Len(lastCall.req)
    /\ \A k \in DOMAIN lastCall.req :
         Abs(times.flat[k] - lastCall.req[k]) <= lastCall.eps * Den
    /\ (lastCall.before.flat = <<10, 46, 90>> /\ time_unit = "yr"
          /\ lastCall.req = <<50>> /\ lastCall.eps = 1)
         => (cycles.flat = <<<<4>>>> /\ times.flat = <<46>>)

\* C3 as stated: once the store was opened, no exit path ends with the
\* handle still open.
C3_HandleClosedOnEveryExit ==
  pc \in {"closed", "failed"} => d # "open"

\* The centroids loadMesh would read for the session's mesh, rounded to 5.
MeshCentroids == [dim |-> 3, pts |-> elemCentroids(MeshBuffer, 5).centroids]

RawVector(key) == [shape |-> <<3>>, a |-> RawField(key)]

RawMatrix ==
  [shape |-> <<Len(cycles.flat), 3>>,
   a |-> [c \in DOMAIN cycles.flat |-> RawField(cycles.flat[c])]]

\* C7 as stated: after a loadMesh, get and getArray return the raw values
\* permuted by the map of the most recent loadMesh, the one computed from
\* its centroids, or the raw values where that call had no axis order.
C7_ReadsApplyLatestMap ==
  (pc = "active" /\ meshCall.called /\ lastCall.op \in {"get", "getArray"}
     /\ cycles.kind = "ndarray" /\ Len(cycles.shape) = 1) =>
    LET raw == IF lastCall.op = "get" THEN RawVector(lastCall.req[1]) ELSE RawMatrix
        claimed == structuredOrdering(MeshCentroids, meshCall.order).map
    IN  /\ lastCall.ok
        /\ self_map.set = meshCall.has_order
        /\ meshCall.has_order => self_map.map = claimed
        /\ lastCall.val =
             IF meshCall.has_order
               THEN reorder(raw, [kind |-> "array", idx |-> claimed]).a
               ELSE raw.a

\* C8 as stated: cycles and times have the same shape, and every time is
\* the stored time of the cycle at its position, scaled by the time factor.
C8_LockStep ==
  pc = "active" =>
    /\ cycles.kind = times.kind
    /\ cycles.shape = times.shape
    /\ Len(cycles.flat) = Len(times.flat)
    /\ \A q \in DOMAIN cycles.flat :
         /\ cycles.flat[q] \in Range(store.keys)
         /\ times.flat[q] = store.time[cycles.flat[q]] * Num

\* The part of C8 the code keeps: lock step while both are arrays.
C8_LockStepOfArrays ==
  (pc = "active" /\ cycles.kind = "ndarray") =>
    /\ times.kind = "ndarray"
    /\ cycles.shape = times.shape
    /\ \A q \in DOMAIN cycles.flat :
         times.flat[q] = store.time[cycles.flat[q]] * Num

====
